---- MODULE Spec2Model ----
(***************************************************************************)
(* Reading-session lifecycle and reading-time statistics of bookery.       *)
(*                                                                         *)
(* The database tables are the state; every ORM call of a handler is one   *)
(* statement (Django autocommit), so a handler is a sequence of steps that *)
(* may interleave with the steps of other requests.  Spec allows every     *)
(* interleaving of the handlers; SpecSeq runs one handler at a time.       *)
(* Time is counted in ticks, TicksPerSecond of them to a second.           *)
(***************************************************************************)
EXTENDS Integers, Sequences, FiniteSets, TLC

\* ---------------------------------------------------------------- bounds
MaxSessions == 2
MaxTicks == 2
MaxAccounts == 4
TicksPerSecond == 2

\* ------------------------------------------------------------- constants
SecondsPerDay == 86400
Days7 == 7
Days30 == 30
NULL == -1
HTTP_200_OK == 200
HTTP_201_CREATED == 201
HTTP_400_BAD_REQUEST == 400
HTTP_401_UNAUTHORIZED == 401
HTTP_404_NOT_FOUND == 404
HTTP_500_INTERNAL_SERVER_ERROR == 500

TicksPerDay == SecondsPerDay * TicksPerSecond

\* Two accounts, the two books of a catalogue, a book id that resolves to
\* no book, and two workers that serve requests.
Users == {1, 2}
Anonymous == 0
Books == {1, 2}
BookIds == Books \cup {3}
Procs == {1, 2}
DayMarks == {0, Days7, Days30}

\* The ids an account may get.
UserIds == 1..MaxAccounts

VARIABLES sessions, profiles, now, pc, req, instance, resp, hist, agg, accounts

vars == <<sessions, profiles, now, pc, req, instance, resp, hist, agg, accounts>>

\* ------------------------------------------------------------ the tables
ReadingSession(u, b, start, stop) ==
    [user |-> u, book |-> b, start_reading |-> start, stop_reading |-> stop]

Profile(t7, t30) == [total_reading_7days |-> t7, total_reading_30days |-> t30]

NoInstance == [id |-> 0, row |-> ReadingSession(0, 0, NULL, NULL)]
RequestOf(op, u, b) == [op |-> op, user |-> u, book |-> b]
NoRequest == RequestOf("none", 0, 0)
Response(status, detail, data) == [status |-> status, detail |-> detail, data |-> data]
NoResponse == Response(0, "", <<>>)
NoHistory == [request |-> NoRequest, pre |-> <<>>]
AggIdle == [pc |-> "idle", seven_days_ago |-> 0, thirty_days_ago |-> 0,
            profile |-> 0, t7 |-> 0, t30 |-> 0]

\* The rows of User and of Profile as rows (Profile.user is the one-to-one
\* key to its User), and the save of a User in progress.
ProfileRow(u) ==
    [user |-> u, total_reading_7days |-> 0, total_reading_30days |-> 0]
NoAccounts == [auth_user |-> {}, last_id |-> 0, profile |-> <<>>, pc |-> "idle",
               instance |-> 0, created |-> FALSE]

\* ------------------------------------------------------ queries (pure)
\* The ids (1-based positions, in creation order) of the rows a filter keeps.
Ids(tbl) == 1..Len(tbl)

ActiveSessionIds(tbl, u) ==
    {i \in Ids(tbl) : tbl[i].user = u /\ tbl[i].stop_reading = NULL}

\* Mutant of UserBookIds: the filter on the book is left out.
UserBookIds_AnyBook(tbl, u, b) == {i \in Ids(tbl) : tbl[i].user = u}

UserBookIds(tbl, u, b) ==
    {i \in Ids(tbl) : tbl[i].user = u /\ tbl[i].book = b}

Max(S) == CHOOSE x \in S : \A y \in S : y <= x

\* Mutant of LastSession: the row with the least pk, as first() gives.
LastSession_First(tbl, u, b) ==
    IF UserBookIds(tbl, u, b) = {} THEN NoInstance
    ELSE LET i == CHOOSE x \in UserBookIds(tbl, u, b) :
                      \A y \in UserBookIds(tbl, u, b) : x <= y
         IN  [id |-> i, row |-> tbl[i]]

\* QuerySet.last() of an unordered queryset: the row with the greatest pk.
LastSession(tbl, u, b) ==
    IF UserBookIds(tbl, u, b) = {} THEN NoInstance
    ELSE LET i == Max(UserBookIds(tbl, u, b)) IN [id |-> i, row |-> tbl[i]]

\* Mutant of Duration: an open session counts up to the current time.
Duration_OpenUntilNow(s) ==
    IF s.stop_reading = NULL THEN <<now - s.start_reading>>
    ELSE <<s.stop_reading - s.start_reading>>

\* Mutant of Duration: the difference is taken the other way round.
Duration_Reversed(s) ==
    IF s.stop_reading = NULL \/ s.start_reading = NULL THEN <<>>
    ELSE <<s.start_reading - s.stop_reading>>

\* Mutant of Duration: each difference is cut to whole seconds.
Duration_WholeSeconds(s) ==
    IF s.stop_reading = NULL \/ s.start_reading = NULL THEN <<>>
    ELSE <<((s.stop_reading - s.start_reading) \div TicksPerSecond)
           * TicksPerSecond>>

\* F('stop_reading') - F('start_reading'): NULL when either side is NULL.
Duration(s) ==
    IF s.stop_reading = NULL \/ s.start_reading = NULL THEN <<>>
    ELSE <<s.stop_reading - s.start_reading>>

\* SQL SUM over the rows with ids in S: NULLs are skipped, and the sum of
\* no non-NULL value is NULL.  An optional value is <<>> (NULL) or <<v>>.
RECURSIVE SumOver(_, _)
SumOver(tbl, S) ==
    IF S = {} THEN <<>>
    ELSE LET i == Max(S)
             rest == SumOver(tbl, S \ {i})
             d == Duration(tbl[i])
         IN  IF d = <<>> THEN rest
             ELSE IF rest = <<>> THEN d
             ELSE <<rest[1] + d[1]>>

\* int(td.total_seconds() if td else 0): a NULL or zero timedelta is falsy,
\* and int() truncates toward zero.
IntSeconds(td) ==
    IF td = <<>> \/ td[1] = 0 THEN 0
    ELSE IF td[1] > 0 THEN td[1] \div TicksPerSecond
    ELSE 0 - ((0 - td[1]) \div TicksPerSecond)

\* BookViewSet.statistic: the total over the user's sessions of the book.
GetTotalTime(tbl, u, b) == IntSeconds(SumOver(tbl, UserBookIds(tbl, u, b)))

\* Mutant of WindowIds: the window is tested on start_reading.
WindowIds_ByStart(tbl, u, cutoff) ==
    {i \in Ids(tbl) : /\ tbl[i].user = u
                      /\ tbl[i].stop_reading # NULL
                      /\ tbl[i].start_reading >= cutoff}

\* Mutant of WindowIds: only the sessions of the first book are kept.
WindowIds_FirstBookOnly(tbl, u, cutoff) ==
    {i \in Ids(tbl) : /\ tbl[i].user = u /\ tbl[i].book = 1
                      /\ tbl[i].stop_reading # NULL
                      /\ tbl[i].stop_reading >= cutoff}

\* filter(user=..., stop_reading__gte=cutoff): a NULL never compares >=.
WindowIds(tbl, u, cutoff) ==
    {i \in Ids(tbl) : /\ tbl[i].user = u
                      /\ tbl[i].stop_reading # NULL
                      /\ tbl[i].stop_reading >= cutoff}

WindowTotal(tbl, u, cutoff) == IntSeconds(SumOver(tbl, WindowIds(tbl, u, cutoff)))

\* ------------------------------------------------------------------ init
Init ==
    /\ sessions = <<>>
    /\ profiles = [u \in Users |-> Profile(0, 0)]
    /\ now = 0
    /\ pc = [p \in Procs |-> "idle"]
    /\ req = [p \in Procs |-> NoRequest]
    /\ instance = [p \in Procs |-> NoInstance]
    /\ resp = NoResponse
    /\ hist = NoHistory
    /\ agg = AggIdle
    /\ accounts = NoAccounts

\* ----------------------------------------------------------------- clock
\* timezone.now() advances by a tick within a day, or by whole days to the
\* day on which a window of the statistics ends.
\* Mutant of TickFine: the clock steps back once it has advanced.
TickFine_Backwards ==
    /\ now % TicksPerDay < MaxTicks
    /\ now' = IF now % TicksPerDay > 0 THEN now - 1 ELSE now + 1
    /\ UNCHANGED <<sessions, profiles, pc, req, instance, resp, hist, agg>>

TickFine ==
    /\ now % TicksPerDay < MaxTicks
    /\ now' = now + 1
    /\ UNCHANGED <<sessions, profiles, pc, req, instance, resp, hist, agg>>

TickDays ==
    /\ \E d \in DayMarks :
          /\ d > now \div TicksPerDay
          /\ now' = d * TicksPerDay + (now % TicksPerDay)
    /\ UNCHANGED <<sessions, profiles, pc, req, instance, resp, hist, agg>>

\* --------------------------------------------------------- request entry
\* Mutant of Refused: the permission check lets every request through.
Refused_NoPermission(u, b) ==
    IF b \notin Books THEN Response(HTTP_404_NOT_FOUND, "", <<>>) ELSE NoResponse

\* Mutant of Refused: get_object finds a book for every id.
Refused_AnyBook(u, b) ==
    IF u = Anonymous THEN Response(HTTP_401_UNAUTHORIZED, "", <<>>) ELSE NoResponse

\* get_permissions (IsAuthenticated), then get_object: the response that
\* ends the request before its handler's body runs, or NoResponse.
Refused(u, b) ==
    IF u = Anonymous THEN Response(HTTP_401_UNAUTHORIZED, "", <<>>)
    ELSE IF b \notin Books THEN Response(HTTP_404_NOT_FOUND, "", <<>>)
    ELSE NoResponse

Refuse(u, b) ==
    /\ Refused(u, b) # NoResponse
    /\ resp' = Refused(u, b)
    /\ UNCHANGED <<sessions, profiles, now, pc, req, instance, agg>>

StartsInFlight == Cardinality({p \in Procs : req[p].op = "start"})

\* ----------------------------------------------------- start_reading
\* Mutant of SameBookActive: the same-book check never finds a session.
SameBookActive_Never(tbl, u, b) == FALSE

\* StartReadingSerializer.validate: if active_session.filter(book=book)
SameBookActive(tbl, u, b) ==
    {i \in ActiveSessionIds(tbl, u) : tbl[i].book = b} # {}

\* Mutant of CloseActive: the UPDATE is left out.
CloseActive_Skipped(tbl, u, t) == tbl

\* active_session.update(stop_reading=timezone.now()): one UPDATE of every
\* row that is the user's and open when the statement runs.
CloseActive(tbl, u, t) ==
    [i \in Ids(tbl) |->
        IF i \in ActiveSessionIds(tbl, u)
        THEN [tbl[i] EXCEPT !.stop_reading = t] ELSE tbl[i]]

\* Mutant of NewSession: the new row is written with stop_reading set.
NewSession_Closed(u, b, t) == ReadingSession(u, b, t, t)

\* Mutant of NewSession: the new row starts a tick before the INSERT.
NewSession_Backdated(u, b, t) ==
    ReadingSession(u, b, IF t > 0 THEN t - 1 ELSE t, NULL)

\* ReadingSession.objects.create(user=user, book=book, start_reading=now)
NewSession(u, b, t) == ReadingSession(u, b, t, NULL)

\* BookViewSet.start_reading up to the first statement of validate:
\* active_session.exists()
StartReadingUpTo(p, u, b, cap) ==
    /\ pc[p] = "idle"
    /\ \/ Refuse(u, b)
       \/ /\ Refused(u, b) = NoResponse
          /\ Len(sessions) + StartsInFlight < cap
          /\ req' = [req EXCEPT ![p] = RequestOf("start", u, b)]
          /\ pc' = [pc EXCEPT ![p] =
                      IF ActiveSessionIds(sessions, u) # {}
                      THEN "start_same" ELSE "start_create"]
          /\ resp' = NoResponse
          /\ UNCHANGED <<sessions, profiles, now, instance, agg>>

StartReading(p, u, b) == StartReadingUpTo(p, u, b, MaxSessions)

StartSame(p) ==
    /\ pc[p] = "start_same"
    /\ IF SameBookActive(sessions, req[p].user, req[p].book)
       THEN /\ resp' = Response(HTTP_400_BAD_REQUEST,
                                "Active reading session already exists", <<>>)
            /\ req' = [req EXCEPT ![p] = NoRequest]
            /\ pc' = [pc EXCEPT ![p] = "idle"]
       ELSE /\ pc' = [pc EXCEPT ![p] = "start_update"]
            /\ UNCHANGED <<resp, req>>
    /\ UNCHANGED <<sessions, profiles, now, instance, agg>>

StartUpdate(p) ==
    /\ pc[p] = "start_update"
    /\ sessions' = CloseActive(sessions, req[p].user, now)
    /\ pc' = [pc EXCEPT ![p] = "start_create"]
    /\ UNCHANGED <<profiles, now, req, instance, resp, agg>>

\* StartReadingSerializer.create, then the 201 response
StartCreate(p) ==
    /\ pc[p] = "start_create"
    /\ sessions' = Append(sessions, NewSession(req[p].user, req[p].book, now))
    /\ resp' = Response(HTTP_201_CREATED, "", <<>>)
    /\ req' = [req EXCEPT ![p] = NoRequest]
    /\ pc' = [pc EXCEPT ![p] = "idle"]
    /\ UNCHANGED <<profiles, now, instance, agg>>

\* ReadingSession.objects.create raises (the store refuses the INSERT): the
\* exception leaves serializer.save() and the view, no row is written, and
\* the statements that validate ran before it stay committed.
StartCreateFails(p) ==
    /\ pc[p] = "start_create"
    /\ resp' = Response(HTTP_500_INTERNAL_SERVER_ERROR, "", <<>>)
    /\ req' = [req EXCEPT ![p] = NoRequest]
    /\ pc' = [pc EXCEPT ![p] = "idle"]
    /\ UNCHANGED <<sessions, profiles, now, instance, agg>>

\* ------------------------------------------------------ stop_reading
\* Mutant of NotActive: only a missing instance is refused.
NotActive_MissingOnly(inst) == inst.id = 0

\* StopReadingSerializer.validate on the fetched instance (in memory).
NotActive(inst) == inst.id = 0 \/ inst.row.stop_reading # NULL

\* Mutant of SavedRow: the instance is saved without the assignment.
SavedRow_Unassigned(inst, t) == inst.row

\* Mutant of SavedRow: the save also sets start_reading to the time of the
\* stop.
SavedRow_Restarted(inst, t) ==
    [inst.row EXCEPT !.stop_reading = t, !.start_reading = t]

\* StopReadingSerializer.update: instance.stop_reading = now; instance.save()
\* writes every field of the in-memory instance to the row with its pk.
SavedRow(inst, t) == [inst.row EXCEPT !.stop_reading = t]

\* BookViewSet.stop_reading up to is_valid(): the fetch of last_session,
\* then validate, which reads only the instance fetched.
StopReading(p, u, b) ==
    /\ pc[p] = "idle"
    /\ \/ Refuse(u, b)
       \/ /\ Refused(u, b) = NoResponse
          /\ LET inst == LastSession(sessions, u, b) IN
              IF NotActive(inst)
              THEN /\ resp' = Response(HTTP_400_BAD_REQUEST, "Session is not active", <<>>)
                   /\ UNCHANGED <<pc, req, instance>>
              ELSE /\ resp' = NoResponse
                   /\ req' = [req EXCEPT ![p] = RequestOf("stop", u, b)]
                   /\ instance' = [instance EXCEPT ![p] = inst]
                   /\ pc' = [pc EXCEPT ![p] = "stop_save"]
          /\ UNCHANGED <<sessions, profiles, now, agg>>

\* Mutant of SaveInstance: the write is an UPDATE of the user's open rows.
SaveInstance_AllOpen(tbl, inst, t) == CloseActive(tbl, inst.row.user, t)

\* Mutant of SaveInstance: the write closes the open rows of every user.
SaveInstance_EveryOpenRow(tbl, inst, t) ==
    [i \in Ids(tbl) |->
        IF tbl[i].stop_reading = NULL
        THEN [tbl[i] EXCEPT !.stop_reading = t] ELSE tbl[i]]

SaveInstance(tbl, inst, t) == [tbl EXCEPT ![inst.id] = SavedRow(inst, t)]

StopSave(p) ==
    /\ pc[p] = "stop_save"
    /\ sessions' = SaveInstance(sessions, instance[p], now)
    /\ resp' = Response(HTTP_201_CREATED, "", <<>>)
    /\ instance' = [instance EXCEPT ![p] = NoInstance]
    /\ req' = [req EXCEPT ![p] = NoRequest]
    /\ pc' = [pc EXCEPT ![p] = "idle"]
    /\ UNCHANGED <<profiles, now, agg>>

\* --------------------------------------------------------- statistic
Statistic(p, u, b) ==
    /\ pc[p] = "idle"
    /\ \/ Refuse(u, b)
       \/ /\ Refused(u, b) = NoResponse
          /\ resp' = Response(HTTP_200_OK, "", <<GetTotalTime(sessions, u, b)>>)
          /\ UNCHANGED <<sessions, profiles, now, pc, req, instance, agg>>

\* ------------------------------------------- reading_time_statistic
\* Mutant of AggSum7: the query also closes the user's open sessions.
AggSum7_ClosesOpen ==
    /\ agg.pc = "sum7"
    /\ agg' = [agg EXCEPT !.pc = "sum30",
                          !.t7 = WindowTotal(sessions, agg.profile, agg.seven_days_ago)]
    /\ sessions' = CloseActive(sessions, agg.profile, now)
    /\ UNCHANGED <<profiles, now, pc, req, instance, resp>>

\* seven_days_ago = timezone.now() - timedelta(days=7)
AggStart ==
    /\ agg.pc \in {"idle", "failed"}
    /\ agg' = [AggIdle EXCEPT !.pc = "cutoff30",
                              !.seven_days_ago = now - Days7 * TicksPerDay]
    /\ UNCHANGED <<sessions, profiles, now, pc, req, instance, resp>>

\* thirty_days_ago = timezone.now() - timedelta(days=30); the loop then
\* starts at the first profile (Profile.objects.all(), one per user).
AggCutoff30 ==
    /\ agg.pc = "cutoff30"
    /\ agg' = [agg EXCEPT !.pc = "sum7", !.profile = 1,
                          !.thirty_days_ago = now - Days30 * TicksPerDay]
    /\ UNCHANGED <<sessions, profiles, now, pc, req, instance, resp>>

AggSum7 ==
    /\ agg.pc = "sum7"
    /\ agg' = [agg EXCEPT !.pc = "sum30",
                          !.t7 = WindowTotal(sessions, agg.profile, agg.seven_days_ago)]
    /\ UNCHANGED <<sessions, profiles, now, pc, req, instance, resp>>

AggSum30 ==
    /\ agg.pc = "sum30"
    /\ agg' = [agg EXCEPT !.pc = "update",
                          !.t30 = WindowTotal(sessions, agg.profile, agg.thirty_days_ago)]
    /\ UNCHANGED <<sessions, profiles, now, pc, req, instance, resp>>

\* Mutant of UpdatedProfile: a total computed as 0 leaves the stored value.
UpdatedProfile_KeepIfZero(old, t7, t30) ==
    Profile(IF t7 = 0 THEN old.total_reading_7days ELSE t7,
            IF t30 = 0 THEN old.total_reading_30days ELSE t30)

\* Mutant of UpdatedProfile: the totals are added to the stored values, up to
\* the seconds of the longest window.
UpdatedProfile_Added(old, t7, t30) ==
    Profile(IF old.total_reading_7days + t7 > Days30 * SecondsPerDay
            THEN old.total_reading_7days ELSE old.total_reading_7days + t7,
            IF old.total_reading_30days + t30 > Days30 * SecondsPerDay
            THEN old.total_reading_30days ELSE old.total_reading_30days + t30)

\* update(total_reading_7days=..., total_reading_30days=...): both columns
\* of the row are set to the values given.
\* Mutant of UpdatedProfile: the two totals are written to each other's field.
UpdatedProfile_Swapped(old, t7, t30) ==
    [old EXCEPT !.total_reading_7days = t30, !.total_reading_30days = t7]

UpdatedProfile(old, t7, t30) ==
    [old EXCEPT !.total_reading_7days = t7, !.total_reading_30days = t30]

\* Profile.objects.filter(id=profile.id).update(...), then the next profile.
AggUpdate ==
    /\ agg.pc = "update"
    /\ profiles' = [profiles EXCEPT ![agg.profile] =
                      UpdatedProfile(profiles[agg.profile], agg.t7, agg.t30)]
    /\ agg' = IF agg.profile + 1 \in Users
              THEN [agg EXCEPT !.pc = "sum7", !.profile = agg.profile + 1,
                               !.t7 = 0, !.t30 = 0]
              ELSE AggIdle
    /\ UNCHANGED <<sessions, now, pc, req, instance, resp>>

\* A statement of the loop raises (the store fails on a query or on the
\* UPDATE): nothing catches it inside the loop, the task ends as failed, and
\* the profiles written so far keep their new totals.  hist keeps the run
\* that failed: the profile it failed on, the time of the run, the tables.
AggFail ==
    /\ agg.pc \in {"sum7", "sum30", "update"}
    /\ agg' = [AggIdle EXCEPT !.pc = "failed"]
    /\ hist' = [request |-> RequestOf("reading_time_statistic", agg.profile, 0),
                pre |-> sessions,
                at |-> agg.seven_days_ago + Days7 * TicksPerDay,
                profiles |-> profiles]
    /\ UNCHANGED <<sessions, profiles, now, pc, req, instance, resp>>

\* One statement of the running job, or the start of a run.
Aggregator ==
    \/ AggStart
    \/ AggCutoff30
    \/ AggSum7
    \/ AggSum30
    \/ AggUpdate

\* ------------------------------------------------- accounts and profiles
\* hasattr(instance, "profile"): a Profile row with this user exists.
HasProfile(rows, u) == \E i \in 1..Len(rows) : rows[i].user = u

\* Mutant of ShouldCreateProfile: the receiver creates a profile on every
\* save.
ShouldCreateProfile_Always(created, rows, u) == TRUE

\* create_user_profile: if created and not hasattr(instance, "profile")
ShouldCreateProfile(created, rows, u) == created /\ ~HasProfile(rows, u)

\* User.save(): the INSERT of a new User, which gets the next id, or the
\* UPDATE of an existing one; post_save is then sent with created set
\* accordingly.
SaveUser(u) ==
    /\ accounts.pc = "idle"
    /\ u \in accounts.auth_user \/ u = accounts.last_id + 1
    /\ accounts' = [accounts EXCEPT !.auth_user = @ \cup {u},
                                    !.last_id = IF u > @ THEN u ELSE @,
                                    !.pc = "post_save",
                                    !.instance = u,
                                    !.created = (u \notin accounts.auth_user)]
    /\ UNCHANGED <<sessions, profiles, now, pc, req, instance, resp, hist, agg>>

\* The receiver create_user_profile of post_save.
PostSave ==
    /\ accounts.pc = "post_save"
    /\ accounts' = [accounts EXCEPT
          !.pc = "idle",
          !.profile = IF ShouldCreateProfile(accounts.created, @, accounts.instance)
                      THEN Append(@, ProfileRow(accounts.instance)) ELSE @]
    /\ UNCHANGED <<sessions, profiles, now, pc, req, instance, resp, hist, agg>>

\* The delete of a User: on_delete=CASCADE deletes its Profile row with it.
DeleteUser(u) ==
    /\ accounts.pc = "idle"
    /\ u \in accounts.auth_user
    /\ accounts' = [accounts EXCEPT
          !.auth_user = @ \ {u},
          !.profile = SelectSeq(@, LAMBDA r : r.user # u),
          !.instance = 0, !.created = FALSE]
    /\ UNCHANGED <<sessions, profiles, now, pc, req, instance, resp, hist, agg>>

\* -------------------------------------------------- specifications
\* A request arrives with its user (or none) and the book id of its URL.
Enter(p, op, u, b) ==
    \/ op = "start" /\ StartReading(p, u, b)
    \/ op = "stop" /\ StopReading(p, u, b)
    \/ op = "statistic" /\ Statistic(p, u, b)

Continue(p) ==
    \/ StartSame(p)
    \/ StartUpdate(p)
    \/ StartCreate(p)
    \/ StopSave(p)

Ops == {"start", "stop", "statistic"}

Arrive(p) ==
    \E op \in Ops, u \in Users \cup {Anonymous}, b \in BookIds : Enter(p, op, u, b)

\* The requests that change the table: start and stop of a user on a book.
ArriveValid(p) ==
    \E op \in {"start", "stop"}, u \in Users, b \in Books : Enter(p, op, u, b)

\* Every interleaving of the statements of concurrent requests.
Next ==
    \/ TickFine /\ UNCHANGED accounts
    \/ \E p \in Procs : Arrive(p) /\ UNCHANGED <<hist, accounts>>
    \/ \E p \in Procs : Continue(p) /\ UNCHANGED <<hist, accounts>>

Spec == Init /\ [][Next]_vars

\* One request at a time, each handler run to its end by the one worker
\* that serves them.  hist keeps the request that arrived last and the table
\* as it found it.
SeqProcs == {1}
AllIdle == \A q \in Procs : pc[q] = "idle"

ArriveSeq(p) ==
    \E op \in Ops, u \in Users \cup {Anonymous}, b \in BookIds :
        /\ Enter(p, op, u, b)
        /\ hist' = [request |-> RequestOf(op, u, b), pre |-> sessions]

NextSeq ==
    \/ TickFine /\ UNCHANGED accounts
    \/ \E p \in SeqProcs : ArriveSeq(p) /\ UNCHANGED accounts
    \/ \E p \in SeqProcs : Continue(p) /\ UNCHANGED <<hist, accounts>>

SpecSeq == Init /\ [][NextSeq]_vars

\* One request at a time, with an INSERT that may fail.
NextFail ==
    \/ TickFine /\ UNCHANGED accounts
    \/ \E p \in SeqProcs : ArriveSeq(p) /\ UNCHANGED accounts
    \/ \E p \in SeqProcs : Continue(p) /\ UNCHANGED <<hist, accounts>>
    \/ \E p \in SeqProcs : StartCreateFails(p) /\ UNCHANGED <<hist, accounts>>

SpecFail == Init /\ [][NextFail]_vars

\* The scheduled job and the requests over days, one at a time: a run of
\* the job starts when no handler is running and ends before the next
\* request arrives.
NextAgg ==
    \/ TickFine /\ UNCHANGED accounts
    \/ TickDays /\ UNCHANGED accounts
    \/ \E p \in SeqProcs : agg.pc = "idle" /\ ArriveValid(p) /\ UNCHANGED <<hist, accounts>>
    \/ \E p \in SeqProcs : Continue(p) /\ UNCHANGED <<hist, accounts>>
    \/ AllIdle /\ Aggregator /\ UNCHANGED <<hist, accounts>>

SpecAgg == Init /\ [][NextAgg]_vars

\* The scheduled job, with statements that may fail, and the requests, at
\* the days on which a window ends.
NextAggFail ==
    \/ TickDays /\ UNCHANGED accounts
    \/ \E p \in SeqProcs :
          agg.pc \in {"idle", "failed"} /\ ArriveValid(p) /\ UNCHANGED <<hist, accounts>>
    \/ \E p \in SeqProcs : Continue(p) /\ UNCHANGED <<hist, accounts>>
    \/ AllIdle /\ Aggregator /\ UNCHANGED <<hist, accounts>>
    \/ AllIdle /\ AggFail /\ UNCHANGED accounts

SpecAggFail == Init /\ [][NextAggFail]_vars

\* The three requests of the users on the books, and the job, with the
\* statements of the job and of the request in flight interleaved.
ArriveUser(p) ==
    \E op \in Ops, u \in Users, b \in Books : Enter(p, op, u, b)

NextFrame ==
    \/ TickFine /\ UNCHANGED accounts
    \/ \E p \in SeqProcs : ArriveUser(p) /\ UNCHANGED <<hist, accounts>>
    \/ \E p \in SeqProcs : Continue(p) /\ UNCHANGED <<hist, accounts>>
    \/ Aggregator /\ UNCHANGED <<hist, accounts>>

SpecFrame == Init /\ [][NextFrame]_vars

\* The job interleaved with the statements of start and stop requests; the
\* clock moves by days, between runs.  hist keeps, of the running job, the table its run
\* found and the tables the store has held since the 7-day read of the
\* profile at hand.
RunHistory(tbl) ==
    [request |-> RequestOf("reading_time_statistic", 0, 0),
     pre |-> tbl, seen |-> {}]

NextRun ==
    \/ agg.pc = "idle" /\ TickDays /\ UNCHANGED accounts
    \/ \E p \in SeqProcs : ArriveValid(p) /\ UNCHANGED <<hist, accounts>>
    \/ \E p \in SeqProcs :
          /\ Continue(p)
          /\ hist' = IF agg.pc \in {"sum30", "update"}
                     THEN [hist EXCEPT !.seen = @ \cup {sessions'}] ELSE hist
          /\ UNCHANGED accounts
    \/ AggStart /\ hist' = RunHistory(sessions) /\ UNCHANGED accounts
    \/ AggCutoff30 /\ UNCHANGED <<hist, accounts>>
    \/ AggSum7 /\ hist' = [hist EXCEPT !.seen = {sessions}] /\ UNCHANGED accounts
    \/ AggSum30 /\ UNCHANGED <<hist, accounts>>
    \/ AggUpdate /\ UNCHANGED <<hist, accounts>>

SpecRun == Init /\ [][NextRun]_vars

\* Concurrent start requests only, with room for one session more: a start
\* that follows two starts that raced.
ContinueStart(p) ==
    \/ StartSame(p)
    \/ StartUpdate(p)
    \/ StartCreate(p)

NextRace ==
    \/ TickFine /\ UNCHANGED accounts
    \/ \E p \in Procs, u \in Users, b \in Books :
          StartReadingUpTo(p, u, b, MaxSessions + 1) /\ UNCHANGED <<hist, accounts>>
    \/ \E p \in Procs : ContinueStart(p) /\ UNCHANGED <<hist, accounts>>

SpecRace == Init /\ [][NextRace]_vars

\* Accounts are created, saved again and deleted.
NextAccounts ==
    \/ \E u \in UserIds : SaveUser(u)
    \/ PostSave
    \/ \E u \in UserIds : DeleteUser(u)

SpecAccounts == Init /\ [][NextAccounts]_vars

\* ================================================================ claims
IsOpen(s) == s.stop_reading = NULL
OpenIds(tbl, u) == {i \in Ids(tbl) : tbl[i].user = u /\ IsOpen(tbl[i])}
Ended == AllIdle /\ hist.request.op # "none"
Authenticated(r) == r.user \in Users /\ r.book \in Books

\* The ids of u's sessions of book b that no later session of u and b follows.
MostRecent(tbl, u, b) ==
    {i \in Ids(tbl) : /\ tbl[i].user = u /\ tbl[i].book = b
                      /\ \A j \in Ids(tbl) :
                            (tbl[j].user = u /\ tbl[j].book = b) => j <= i}

\* C1: in sequential runs from an empty table, every user has at most one
\* session with stop_reading = NULL, in every state.
C1_AtMostOneOpen == \A u \in Users : Cardinality(OpenIds(sessions, u)) <= 1

\* A user switched books: the session of the first book is closed, the
\* session of the second is the one open session.
C1_Witness ==
    \E u \in Users : \E i, j \in Ids(sessions) :
        /\ i < j /\ sessions[i].user = u /\ sessions[j].user = u
        /\ sessions[i].book # sessions[j].book
        /\ ~IsOpen(sessions[i]) /\ IsOpen(sessions[j])

\* C2: when the statements of concurrent start_reading requests of one user
\* interleave, the user never has two open sessions.
C2_AtMostOneOpenConcurrent ==
    \A u \in Users : Cardinality(OpenIds(sessions, u)) < 2

\* C3: a start on the book of the user's open session is rejected with
\* "Active reading session already exists", and the table stays as the
\* request found it, while the handler runs and when it has ended.
C3_DuplicateStartRejected ==
    (/\ hist.request.op = "start"
     /\ \E i \in OpenIds(hist.pre, hist.request.user) :
            hist.pre[i].book = hist.request.book)
    => /\ sessions = hist.pre
       /\ AllIdle => /\ resp.status = HTTP_400_BAD_REQUEST
                     /\ resp.detail = "Active reading session already exists"

C3_Witness ==
    /\ Ended /\ hist.request.op = "start"
    /\ \E i \in OpenIds(hist.pre, hist.request.user) :
          /\ hist.pre[i].book = hist.request.book
          /\ hist.pre[i].start_reading < now
    /\ resp.status = HTTP_400_BAD_REQUEST

\* The table when the start of a user with an open session on another book
\* has ended.
C4_EndState ==
    \A i \in Ids(hist.pre) :
        (/\ Ended /\ hist.request.op = "start" /\ Authenticated(hist.request)
         /\ hist.pre[i].user = hist.request.user /\ IsOpen(hist.pre[i])
         /\ hist.pre[i].book # hist.request.book)
        => /\ resp.status = HTTP_201_CREATED
           /\ Len(sessions) = Len(hist.pre) + 1
           /\ ~IsOpen(sessions[i])
           /\ sessions[i].stop_reading <= sessions[Len(sessions)].start_reading
           /\ sessions[Len(sessions)].user = hist.request.user
           /\ sessions[Len(sessions)].book = hist.request.book
           /\ IsOpen(sessions[Len(sessions)])
           /\ sessions[Len(sessions)].start_reading <= now

\* The times the UPDATE and the INSERT of a start write.
C4_Steps ==
    \A p \in Procs :
        /\ (pc[p] = "start_update" /\ pc'[p] = "start_create")
           => \A i \in OpenIds(sessions, req[p].user) :
                  sessions'[i].stop_reading = now
        /\ (pc[p] = "start_create" /\ pc'[p] = "idle")
           => /\ Len(sessions') = Len(sessions) + 1
              /\ sessions'[Len(sessions')].start_reading = now
              /\ IsOpen(sessions'[Len(sessions')])

\* C4: a start on book B by a user whose open session is on another book A
\* succeeds; A's session is closed at the time of the UPDATE, every row
\* the UPDATE closes gets that time, and the row appended is the user's
\* session of B, open, with start_reading the time of the INSERT.
C4_AutoCloseOnSwitch == [](C4_EndState) /\ [][C4_Steps]_vars

\* The switch has happened later than the first start: the closed session
\* lasted a tick.
C4_Witness ==
    /\ Ended /\ hist.request.op = "start" /\ resp.status = HTTP_201_CREATED
    /\ \E i \in Ids(hist.pre) :
          /\ hist.pre[i].user = hist.request.user /\ IsOpen(hist.pre[i])
          /\ hist.pre[i].book # hist.request.book
          /\ sessions[i].stop_reading > sessions[i].start_reading

\* C5: a stop by a user who has no session of the book, or whose most
\* recent session of the book is closed, is rejected with "Session is not
\* active" and leaves the table as it found it.
C5_StopNotActive ==
    (/\ Ended /\ hist.request.op = "stop" /\ Authenticated(hist.request)
     /\ \A i \in MostRecent(hist.pre, hist.request.user, hist.request.book) :
            ~IsOpen(hist.pre[i]))
    => /\ resp.status = HTTP_400_BAD_REQUEST
       /\ resp.detail = "Session is not active"
       /\ sessions = hist.pre

\* The stop found a closed session of the book that had lasted a while.
C5_Witness ==
    /\ Ended /\ hist.request.op = "stop" /\ resp.status = HTTP_400_BAD_REQUEST
    /\ \E i \in MostRecent(hist.pre, hist.request.user, hist.request.book) :
          /\ ~IsOpen(hist.pre[i])
          /\ hist.pre[i].stop_reading < now

\* A stop that finds the most recent session of the book open closes it.
C6_FirstSucceeds ==
    \A i \in MostRecent(hist.pre, hist.request.user, hist.request.book) :
        (/\ Ended /\ hist.request.op = "stop" /\ Authenticated(hist.request)
         /\ IsOpen(hist.pre[i]))
        => resp.status = HTTP_201_CREATED /\ ~IsOpen(sessions[i])

\* The request that arrives after a stop that succeeded, and repeats it.
C6_SecondFails ==
    (/\ Ended /\ hist.request.op = "stop" /\ resp.status = HTTP_201_CREATED
     /\ now' = now /\ hist'.request = hist.request)
    => /\ resp'.status = HTTP_400_BAD_REQUEST
       /\ resp'.detail = "Session is not active"
       /\ sessions' = sessions
       /\ AllIdle'

\* C6: of two stops of the same user and book, one right after the other,
\* the first, on an open session, succeeds and closes it; the second is
\* rejected with "Session is not active" and changes no row, so the
\* stop_reading the first one wrote stays.
C6_StopTwice == [](C6_FirstSucceeds) /\ [][C6_SecondFails]_vars

\* A stop was rejected on the only session of the table, which a stop had
\* closed (nothing else closes the only session).
C6_Witness ==
    /\ Ended /\ hist.request.op = "stop" /\ resp.status = HTTP_400_BAD_REQUEST
    /\ Len(sessions) = 1 /\ hist.pre = sessions
    /\ sessions[1].user = hist.request.user /\ sessions[1].book = hist.request.book
    /\ sessions[1].stop_reading > sessions[1].start_reading

\* The fetch and the save of a stop that succeeds.
C7_Steps ==
    \A p \in Procs :
        /\ (pc[p] = "idle" /\ pc'[p] = "stop_save")
           => /\ instance'[p].id \in MostRecent(sessions, req'[p].user, req'[p].book)
              /\ IsOpen(sessions[instance'[p].id])
        /\ (pc[p] = "stop_save" /\ pc'[p] = "idle")
           => /\ resp'.status = HTTP_201_CREATED
              /\ sessions[instance[p].id].user = req[p].user
              /\ sessions[instance[p].id].book = req[p].book
              /\ sessions' = [sessions EXCEPT ![instance[p].id].stop_reading = now]

\* C7: the stop that succeeds fetches the user's most recent session of the
\* book, open, and its save sets stop_reading = now on that row and changes
\* nothing else: every other row, an open session of the same user on
\* another book included, stays as it is.
C7_StopChangesOneRow == [][C7_Steps]_vars

\* A later session of a user is closed while an earlier one, of another
\* book, is open: only a stop closes one of two open sessions.
C7_Witness ==
    /\ AllIdle /\ resp.status = HTTP_201_CREATED
    /\ \E i, j \in Ids(sessions) :
          /\ i < j /\ sessions[i].user = sessions[j].user
          /\ sessions[i].book # sessions[j].book
          /\ IsOpen(sessions[i]) /\ ~IsOpen(sessions[j])

\* C8: a start or a stop of a user on a book id that resolves to no book
\* ends with 404 and leaves the table as it found it.
C8_UnknownBook ==
    (/\ hist.request.op \in {"start", "stop"}
     /\ hist.request.user \in Users /\ hist.request.book \notin Books)
    => AllIdle /\ resp.status = HTTP_404_NOT_FOUND /\ sessions = hist.pre

\* The user had an open session on a book when the start on the unknown
\* book ended; it is still open.
C8_Witness ==
    /\ Ended /\ hist.request.op = "start" /\ hist.request.book \notin Books
    /\ resp.status = HTTP_404_NOT_FOUND
    /\ OpenIds(sessions, hist.request.user) # {}

\* The ticks of the closed sessions of each user and book among the first n
\* rows, added row by row.
TicksUpTo[n \in 0..(MaxSessions + 1)] ==
    [u \in Users, b \in Books |->
        IF n = 0 \/ n > Len(sessions) THEN 0
        ELSE TicksUpTo[n - 1][u, b]
             + (IF /\ sessions[n].user = u /\ sessions[n].book = b
                   /\ ~IsOpen(sessions[n])
                THEN sessions[n].stop_reading - sessions[n].start_reading
                ELSE 0)]

ClosedSeconds(u, b) == TicksUpTo[Len(sessions)][u, b] \div TicksPerSecond

\* C9: the total of a user and a book is, in whole seconds, the sum of
\* stop_reading - start_reading over the closed sessions of that user and
\* that book and of no other; 0 when there is none; and it is what the
\* statistic request returns.
C9_TotalOfClosedSessions ==
    /\ \A u \in Users, b \in Books :
          GetTotalTime(sessions, u, b) = ClosedSeconds(u, b)
    /\ (Ended /\ hist.request.op = "statistic" /\ Authenticated(hist.request))
       => /\ resp.status = HTTP_200_OK
          /\ resp.data = <<ClosedSeconds(hist.request.user, hist.request.book)>>

\* The statistic of a book returned a second to its reader while the table
\* held a closed session, of some length, of another user or another book.
C9_Witness ==
    /\ Ended /\ hist.request.op = "statistic" /\ resp.status = HTTP_200_OK
    /\ resp.data = <<1>>
    /\ \E i \in Ids(sessions) :
          /\ \/ sessions[i].user # hist.request.user
             \/ sessions[i].book # hist.request.book
          /\ ~IsOpen(sessions[i])
          /\ sessions[i].stop_reading > sessions[i].start_reading

\* The table without its open rows, and the cutoffs of a run that starts now.
ClosedRows == SelectSeq(sessions, LAMBDA s : ~IsOpen(s))
Cutoffs == {now - Days7 * TicksPerDay, now - Days30 * TicksPerDay}

\* C10: an open session adds nothing to the total of a book nor to the sums
\* of the aggregation: each is what it is on the table without its open
\* rows, and a user whose sessions are all open gets 0.
C10_OpenSessionsExcluded ==
    /\ \A u \in Users :
          /\ \A b \in Books :
                GetTotalTime(sessions, u, b) = GetTotalTime(ClosedRows, u, b)
          /\ \A c \in Cutoffs :
                WindowTotal(sessions, u, c) = WindowTotal(ClosedRows, u, c)
          /\ (\A i \in Ids(sessions) : sessions[i].user = u => IsOpen(sessions[i]))
             => /\ \A b \in Books : GetTotalTime(sessions, u, b) = 0
                /\ \A c \in Cutoffs : WindowTotal(sessions, u, c) = 0
    /\ agg.pc \in {"sum30", "update"}
       => agg.t7 = WindowTotal(ClosedRows, agg.profile, agg.seven_days_ago)
    /\ agg.pc = "update"
       => agg.t30 = WindowTotal(ClosedRows, agg.profile, agg.thirty_days_ago)

\* The job has summed 0 for a user whose only session is open and a day old.
C10_Witness ==
    /\ agg.pc = "update" /\ agg.t7 = 0 /\ agg.t30 = 0
    /\ \E i \in Ids(sessions) :
          /\ sessions[i].user = agg.profile /\ IsOpen(sessions[i])
          /\ sessions[i].start_reading + TicksPerDay <= now
    /\ \A i \in Ids(sessions) : sessions[i].user = agg.profile => IsOpen(sessions[i])

\* The ticks, from start_reading to stop_reading, of the closed sessions of
\* user u among the first n rows that stopped at or after time c.
RECURSIVE WindowTicks(_, _, _)
WindowTicks(n, u, c) ==
    IF n = 0 THEN 0
    ELSE WindowTicks(n - 1, u, c)
         + (IF /\ sessions[n].user = u /\ ~IsOpen(sessions[n])
               /\ sessions[n].stop_reading >= c
            THEN sessions[n].stop_reading - sessions[n].start_reading
            ELSE 0)

WindowSeconds(u, c) == WindowTicks(Len(sessions), u, c) \div TicksPerSecond

\* The time at which the running job read the clock for its 7-day cutoff.
RunTime == agg.seven_days_ago + Days7 * TicksPerDay

\* The job's write of a profile, in a run whose two reads of the clock gave
\* the same time.
C11_Steps ==
    (/\ agg.pc = "update" /\ agg'.pc # "update"
     /\ agg.thirty_days_ago + Days30 * TicksPerDay = RunTime)
    => /\ profiles'[agg.profile].total_reading_7days
             = WindowSeconds(agg.profile, RunTime - Days7 * TicksPerDay)
       /\ profiles'[agg.profile].total_reading_30days
             = WindowSeconds(agg.profile, RunTime - Days30 * TicksPerDay)
       /\ \A u \in Users \ {agg.profile} : profiles'[u] = profiles[u]

\* C11: a run of the job at time t, with no change of the sessions during
\* it, writes to each profile, as its 7-day (30-day) total, the whole
\* seconds of the full durations of the closed sessions of the profile's
\* user, of every book, with stop_reading >= t - 7 days (t - 30 days), and
\* of no other session.
C11_AggregationWindowing == [][C11_Steps]_vars

\* A profile holds 23 days for the 7-day window and 30 days for the 30-day
\* window: a session of 23 days that started before the 7-day window and
\* stopped inside it counts in full, one of 7 days that stopped before it
\* counts for the 30-day window only.
C11_Witness ==
    \E u \in Users :
        /\ profiles[u].total_reading_7days = (Days30 - Days7) * SecondsPerDay
        /\ profiles[u].total_reading_30days = Days30 * SecondsPerDay

\* C12: in every interleaving of the statements of start and stop requests,
\* a stop_reading that is set is never cleared and never changed by a later
\* write.
C12_WriteOnceClose ==
    [][\A i \in Ids(sessions) :
          ~IsOpen(sessions[i])
          => sessions'[i].stop_reading = sessions[i].stop_reading]_vars

\* C13: with a clock that never goes back, every session that has both times
\* has stop_reading >= start_reading, in every state of every interleaving.
C13_StopNotBeforeStart ==
    \A i \in Ids(sessions) :
        (~IsOpen(sessions[i]) /\ sessions[i].start_reading # NULL)
        => sessions[i].stop_reading >= sessions[i].start_reading

\* A user's first session was closed by the start of the second, and the
\* second by a stop; each lasted a tick.
C13_Witness ==
    /\ AllIdle /\ resp.status = HTTP_201_CREATED
    /\ \E i, j \in Ids(sessions) :
          /\ i < j /\ sessions[i].user = sessions[j].user
          /\ sessions[i].book # sessions[j].book
          /\ ~IsOpen(sessions[i]) /\ ~IsOpen(sessions[j])
          /\ sessions[i].stop_reading > sessions[i].start_reading
          /\ sessions[i].stop_reading = sessions[j].start_reading
          /\ sessions[j].stop_reading > sessions[j].start_reading

\* C14: a start that fails, at whichever statement, leaves the table as the
\* request found it; in particular the open session of another book is not
\* left closed when the INSERT of the new session fails.
C14_NoPartialState ==
    (Ended /\ hist.request.op = "start" /\ resp.status # HTTP_201_CREATED)
    => sessions = hist.pre

\* C15: a failure on one profile does not end the run: a run ends only when
\* the last profile has been processed, so every profile after the one that
\* failed is still updated.
C15_FailureIsolated ==
    [][(agg.pc \notin {"idle", "failed"} /\ agg'.pc \in {"idle", "failed"})
       => \A u \in Users : u <= agg.profile]_vars

\* The job's write of a profile.
C16_Steps ==
    (agg.pc = "update" /\ agg'.pc # "update")
    => /\ profiles'[agg.profile] =
             Profile(WindowSeconds(agg.profile, agg.seven_days_ago),
                     WindowSeconds(agg.profile, agg.thirty_days_ago))
       /\ (\A i \in Ids(sessions) :
               (sessions[i].user = agg.profile /\ ~IsOpen(sessions[i]))
               => sessions[i].stop_reading < agg.seven_days_ago)
          => profiles'[agg.profile].total_reading_7days = 0
       /\ (\A i \in Ids(sessions) :
               (sessions[i].user = agg.profile /\ ~IsOpen(sessions[i]))
               => sessions[i].stop_reading < agg.thirty_days_ago)
          => profiles'[agg.profile].total_reading_30days = 0

\* C16: a run sets both totals of a profile to what it computed from the
\* sessions, whatever the profile held: a window with no closed session of
\* the user in it gets 0, so a session that has left a window no longer
\* counts after the next run.
C16_OverwriteWholesale == [][C16_Steps]_vars

\* A run is at the write of a profile that holds a positive 7-day total from
\* an earlier run; the session has left the 7-day window since, the run has
\* computed 0 for it, and still a positive 30-day total.
C16_Witness ==
    /\ agg.pc = "update"
    /\ profiles[agg.profile].total_reading_7days > 0
    /\ agg.t7 = 0 /\ agg.t30 > 0

\* A step that changes a profile is the job's UPDATE and no request's; a
\* step of the job changes no session.
C17_Steps ==
    /\ profiles' # profiles
       => /\ agg.pc = "update" /\ agg' # agg
          /\ pc' = pc /\ req' = req /\ resp' = resp /\ sessions' = sessions
    /\ (pc' # pc \/ req' # req \/ resp' # resp) => profiles' = profiles
    /\ agg' # agg => sessions' = sessions

\* C17: the totals of the profiles are changed by the job only, and the job
\* changes no session: start, stop and statistic leave every profile as it
\* is, and every statement of a run leaves every session, open or closed,
\* as it is.
C17_FrameOfProfilesAndSessions == [][C17_Steps]_vars

\* A run has written a second to the first profile and is at the write of
\* the second, the table holds an open session, and the last request was a
\* statistic that returned a second.
C17_Witness ==
    /\ agg.pc = "update" /\ agg.profile = 2
    /\ profiles[1].total_reading_7days = 1
    /\ \E i \in Ids(sessions) : IsOpen(sessions[i])
    /\ resp.status = HTTP_200_OK /\ resp.data = <<1>>

\* The totals a complete run at the current time writes, from the sessions.
TotalsAt(t) ==
    [u \in Users |-> Profile(WindowSeconds(u, t - Days7 * TicksPerDay),
                            WindowSeconds(u, t - Days30 * TicksPerDay))]

\* The end of a run during which the clock stood still: the run has written
\* its last profile.
C18_Steps ==
    (agg.pc = "update" /\ agg'.pc = "idle" /\ now = RunTime)
    => profiles' = TotalsAt(now)

\* C18: a complete run at time t on a table of sessions leaves every profile
\* with the totals of that table at t, whatever the profiles held before:
\* the defaults, the totals of an earlier complete run, or those of a run
\* that failed after it had written some profiles.  A rerun at the same time
\* on the same table therefore gives what one complete run gives.
C18_RerunSafe == [][C18_Steps]_vars

\* A run failed on the second profile, after it had written 7 days to the
\* first; the table and the clock have not changed since; a run has since
\* completed: the first profile is as the failed run left it, the second,
\* stale when the run failed, now has its totals.
C18_Witness ==
    /\ agg.pc = "idle" /\ AllIdle
    /\ hist.request.op = "reading_time_statistic" /\ hist.request.user = 2
    /\ hist.at = now /\ hist.pre = sessions
    /\ hist.profiles[1] = profiles[1]
    /\ hist.profiles[2] # profiles[2]
    /\ profiles[1].total_reading_7days = Days7 * SecondsPerDay
    /\ profiles[2].total_reading_30days > 0
    /\ profiles = TotalsAt(now)

\* C19: both totals of every profile are integers and are not negative, in
\* every state, with sessions that start and stop requests produced.
C19_TotalsNonNegative ==
    \A u \in Users :
        /\ profiles[u].total_reading_7days \in Nat
        /\ profiles[u].total_reading_30days \in Nat

\* A run has written a 7-day total of a second, below a 30-day total of
\* days, to a profile.
C19_Witness ==
    \E u \in Users :
        /\ profiles[u].total_reading_7days = 1
        /\ profiles[u].total_reading_30days > SecondsPerDay

\* The Profile rows of user u.
ProfilesOf(u) == {i \in 1..Len(accounts.profile) : accounts.profile[i].user = u}

\* Each user whose save has ended has one profile, no user has two, and
\* every profile is the profile of a user.
C20_OnePerUser ==
    /\ \A u \in accounts.auth_user :
          /\ Cardinality(ProfilesOf(u)) <= 1
          /\ (accounts.pc = "idle" \/ accounts.instance # u)
             => Cardinality(ProfilesOf(u)) = 1
    /\ \A i \in 1..Len(accounts.profile) :
          accounts.profile[i].user \in accounts.auth_user

\* The receiver adds the profile of a user that was created, with both
\* totals 0, and adds none when the user existed.
C20_Steps ==
    (accounts.pc = "post_save" /\ accounts'.pc = "idle")
    => IF accounts.created
       THEN accounts'.profile =
              Append(accounts.profile,
                     [user |-> accounts.instance,
                      total_reading_7days |-> 0, total_reading_30days |-> 0])
       ELSE accounts'.profile = accounts.profile

\* C20: a user gets exactly one profile, with both totals 0, when it is
\* created; a later save of the user adds no second profile; and no profile
\* is left without its user.
C20_OneProfilePerUser == [](C20_OnePerUser) /\ [][C20_Steps]_vars

\* The save of a user that existed has ended: the user has its one profile,
\* next to the profile of another user, after a third was deleted.
C20_Witness ==
    /\ accounts.pc = "idle" /\ ~accounts.created
    /\ accounts.instance \in accounts.auth_user
    /\ Cardinality(ProfilesOf(accounts.instance)) = 1
    /\ Cardinality(accounts.auth_user) = 2
    /\ accounts.last_id = 3
    /\ Len(accounts.profile) = 2

\* C21: a start, a stop or a statistic request that carries no authenticated
\* user ends at once with 401 and leaves the table as it found it.
C21_Unauthorized ==
    (hist.request.op \in Ops /\ hist.request.user = Anonymous)
    => /\ AllIdle
       /\ resp.status = HTTP_401_UNAUTHORIZED
       /\ sessions = hist.pre

\* An anonymous start on a book was refused while the table held an open
\* session, of a user, on another book.
C21_Witness ==
    /\ Ended /\ hist.request.op = "start" /\ hist.request.user = Anonymous
    /\ hist.request.book \in Books
    /\ resp.status = HTTP_401_UNAUTHORIZED
    /\ \E i \in Ids(sessions) :
          IsOpen(sessions[i]) /\ sessions[i].book # hist.request.book

\* C22: the two totals a run writes to a profile are the 7-day and the
\* 30-day sum of one state of the table, among the states the table was in
\* from the 7-day read to the 30-day read, also when a start or a stop of
\* that user runs between the two reads.
C22_OneStateOfTheStore ==
    [][(agg.pc = "sum30" /\ agg'.pc = "update")
       => \E tbl \in hist.seen :
             /\ agg'.t7 = WindowTotal(tbl, agg.profile, agg.seven_days_ago)
             /\ agg'.t30 = WindowTotal(tbl, agg.profile, agg.thirty_days_ago)]_vars

\* The ticks of the closed sessions of user u among the first n rows of a
\* table that stopped at or after time c.
RECURSIVE TableTicks(_, _, _, _)
TableTicks(tbl, n, u, c) ==
    IF n = 0 THEN 0
    ELSE TableTicks(tbl, n - 1, u, c)
         + (IF /\ tbl[n].user = u /\ tbl[n].stop_reading # NULL
               /\ tbl[n].stop_reading >= c
            THEN tbl[n].stop_reading - tbl[n].start_reading
            ELSE 0)

TableSeconds(tbl, u, c) == TableTicks(tbl, Len(tbl), u, c) \div TicksPerSecond

\* Neither the job nor a request waits for the other: the next statement of
\* each can run whatever the other is at.
C23_NoBlocking ==
    /\ \A p \in SeqProcs : pc[p] # "idle" => ENABLED Continue(p)
    /\ agg.pc \notin {"idle", "failed"} => ENABLED Aggregator

\* The write of a profile by a run: each total is at least what the sessions
\* closed when the run began give, in full, for the run's window, and at
\* most what the sessions closed by now give.
C23_Steps ==
    (agg.pc = "update" /\ agg'.pc # "update")
    => /\ profiles'[agg.profile].total_reading_7days
             >= TableSeconds(hist.pre, agg.profile, agg.seven_days_ago)
       /\ profiles'[agg.profile].total_reading_7days
             <= TableSeconds(sessions, agg.profile, agg.seven_days_ago)
       /\ profiles'[agg.profile].total_reading_30days
             >= TableSeconds(hist.pre, agg.profile, agg.thirty_days_ago)
       /\ profiles'[agg.profile].total_reading_30days
             <= TableSeconds(sessions, agg.profile, agg.thirty_days_ago)

\* C23: the job and the requests run side by side without waiting for each
\* other; a session closed before a run began, with stop_reading in a
\* window of the run, is counted in full in the total the run writes for
\* that window; a session closed while the run is in progress is counted or
\* not.
C23_EventuallyIncluded == [](C23_NoBlocking) /\ [][C23_Steps]_vars

\* A run is at the write of a profile: a session of the user, closed before
\* the run began, is in its 30-day total; another was open when the run
\* began and has been closed since.
C23_Witness ==
    /\ agg.pc = "update" /\ agg.t30 > 0
    /\ \E i \in Ids(hist.pre) :
          /\ hist.pre[i].user = agg.profile /\ hist.pre[i].stop_reading # NULL
          /\ hist.pre[i].stop_reading >= agg.thirty_days_ago
          /\ hist.pre[i].stop_reading > hist.pre[i].start_reading
    /\ \E j \in Ids(hist.pre) :
          /\ hist.pre[j].user = agg.profile /\ hist.pre[j].stop_reading = NULL
          /\ sessions[j].stop_reading # NULL

\* A number of whole seconds is the number of ticks cut down to seconds:
\* the part of a second left over is dropped, and nothing is added.
CutToSeconds(seconds, ticks) ==
    /\ seconds * TicksPerSecond <= ticks
    /\ ticks < (seconds + 1) * TicksPerSecond

\* C24: the total of a book and the sums of the job are the exact sum of the
\* durations, to the tick, cut down to whole seconds once, after the
\* summing: never rounded up, and no session cut before it is added.
C24_TruncatedAfterSumming ==
    /\ \A u \in Users, b \in Books :
          CutToSeconds(GetTotalTime(sessions, u, b),
                       TicksUpTo[Len(sessions)][u, b])
    /\ \A u \in Users : \A c \in Cutoffs :
          CutToSeconds(WindowTotal(sessions, u, c),
                       WindowTicks(Len(sessions), u, c))
    /\ agg.pc \in {"sum30", "update"}
       => CutToSeconds(agg.t7,
                       WindowTicks(Len(sessions), agg.profile, agg.seven_days_ago))
    /\ agg.pc = "update"
       => CutToSeconds(agg.t30,
                       WindowTicks(Len(sessions), agg.profile, agg.thirty_days_ago))

\* A user has two sessions of half a second, one per book: the total of
\* each book is 0, and the job has summed a second for the user.
C24_Witness ==
    /\ agg.pc = "update" /\ agg.t7 = 1 /\ agg.t30 = 1
    /\ Len(sessions) = 2
    /\ \A i \in Ids(sessions) :
          /\ sessions[i].user = agg.profile /\ ~IsOpen(sessions[i])
          /\ sessions[i].stop_reading > sessions[i].start_reading
          /\ sessions[i].stop_reading - sessions[i].start_reading < TicksPerSecond
          /\ GetTotalTime(sessions, agg.profile, sessions[i].book) = 0

\* The rows a step changes.
Changed == {i \in Ids(sessions) : sessions'[i] # sessions[i]}

\* C25: a start that succeeds closes at most one session, which was open
\* and is the user's, and adds exactly one; the sessions that were closed
\* and the sessions of other users stay as they are.
C25_StartFrame ==
    [][\A p \in Procs :
          /\ (pc[p] = "start_update" /\ pc'[p] = "start_create")
             => /\ Len(sessions') = Len(sessions)
                /\ Cardinality(Changed) <= 1
                /\ \A i \in Changed :
                      IsOpen(sessions[i]) /\ sessions[i].user = req[p].user
          /\ (pc[p] = "start_create" /\ pc'[p] = "idle")
             => /\ Len(sessions') = Len(sessions) + 1
                /\ Changed = {}]_vars

\* C26: no step of a start, a stop, a statistic request or the job changes
\* the user, the book or the start_reading of a row, and none removes a
\* row: the table only grows.
C26_SetOnceNeverDeleted ==
    [][/\ Len(sessions') >= Len(sessions)
       /\ \A i \in Ids(sessions) :
             /\ sessions'[i].user = sessions[i].user
             /\ sessions'[i].book = sessions[i].book
             /\ sessions'[i].start_reading = sessions[i].start_reading]_vars

\* Two sessions, both closed after some time, a profile that the job has
\* written a second to, and a statistic request that returned a second.
C26_Witness ==
    /\ Len(sessions) = 2
    /\ \A i \in Ids(sessions) :
          ~IsOpen(sessions[i]) /\ sessions[i].stop_reading > sessions[i].start_reading
    /\ \E u \in Users : profiles[u].total_reading_30days = 1
    /\ resp.status = HTTP_200_OK /\ resp.data = <<1>>

\* C27: with one request at a time, an open session of a user on a book is
\* the user's most recent session of that book, so no open session lies
\* behind a later closed one of the same book, and a stop succeeds exactly
\* when the user has an open session on the book.
C27_OpenIsMostRecent ==
    /\ \A i \in Ids(sessions) :
          IsOpen(sessions[i])
          => i \in MostRecent(sessions, sessions[i].user, sessions[i].book)
    /\ (Ended /\ hist.request.op = "stop" /\ Authenticated(hist.request))
       => (resp.status = HTTP_201_CREATED
           <=> \E i \in OpenIds(hist.pre, hist.request.user) :
                  hist.pre[i].book = hist.request.book)

\* A stop succeeded for a user with two sessions of the book, the earlier
\* closed and the later open.
C27_Witness ==
    /\ Ended /\ hist.request.op = "stop" /\ resp.status = HTTP_201_CREATED
    /\ Len(hist.pre) = 2
    /\ \A i \in Ids(hist.pre) :
          /\ hist.pre[i].user = hist.request.user
          /\ hist.pre[i].book = hist.request.book
    /\ ~IsOpen(hist.pre[1]) /\ IsOpen(hist.pre[2])

\* C28: with one request at a time and a clock that does not go back, two
\* sessions of a user do not overlap: the earlier one is closed, and not
\* later than the later one starts.
C28_NoOverlap ==
    \A i, j \in Ids(sessions) :
        (i < j /\ sessions[i].user = sessions[j].user)
        => /\ ~IsOpen(sessions[i])
           /\ sessions[i].stop_reading <= sessions[j].start_reading

\* The second session of a user started a tick after the first, which had
\* lasted a tick, was stopped; the second has been closed too.
C28_Witness ==
    /\ AllIdle /\ Len(sessions) = 2
    /\ sessions[1].user = sessions[2].user
    /\ sessions[1].stop_reading > sessions[1].start_reading
    /\ sessions[1].stop_reading < sessions[2].start_reading
    /\ ~IsOpen(sessions[2])

\* C29: the 7-day total of a profile is never above its 30-day total, also
\* when starts and stops of the user run between the statements of the job.
C29_SevenWithinThirty ==
    \A u \in Users :
        profiles[u].total_reading_7days <= profiles[u].total_reading_30days

\* The only session of a user was closed today, after days; the job has
\* written it to the 30-day total and not to the 7-day total: the stop ran
\* between the two reads.
C29_Witness ==
    \E u \in Users :
        /\ profiles[u].total_reading_7days = 0
        /\ profiles[u].total_reading_30days >= SecondsPerDay
        /\ Cardinality({i \in Ids(sessions) : sessions[i].user = u}) = 1
        /\ \A i \in Ids(sessions) :
              sessions[i].user = u => sessions[i].stop_reading = now

\* The rows of a user.
OwnRows(u) == SelectSeq(sessions, LAMBDA s : s.user = u)

\* The totals of a user are those of the user's own rows.
C30_OwnTotals ==
    \A u \in Users :
        /\ \A b \in Books :
              GetTotalTime(sessions, u, b) = GetTotalTime(OwnRows(u), u, b)
        /\ \A c \in Cutoffs :
              WindowTotal(sessions, u, c) = WindowTotal(OwnRows(u), u, c)

\* The rows a step changes or adds are rows of the user whose request took
\* the step.
C30_Steps ==
    \A i \in Ids(sessions') :
        (i \notin Ids(sessions) \/ sessions'[i] # sessions[i])
        => \E p \in Procs : /\ pc'[p] # pc[p]
                             /\ req[p].user = sessions'[i].user

\* C30: in every interleaving of the requests of two users, a start or a
\* stop of one user adds, closes and changes rows of that user only, and the
\* total of a book and the window sums of a user are the same whatever rows
\* the other user has.
C30_UserIsolation == [](C30_OwnTotals) /\ [][C30_Steps]_vars

\* A user's session was stopped, after some time, while the session of the
\* other user, started before, stays open.
C30_Witness ==
    /\ AllIdle /\ resp.status = HTTP_201_CREATED
    /\ \E i, j \in Ids(sessions) :
          /\ sessions[i].user # sessions[j].user
          /\ ~IsOpen(sessions[i]) /\ IsOpen(sessions[j])
          /\ sessions[i].stop_reading > sessions[i].start_reading
          /\ sessions[j].start_reading < sessions[i].stop_reading

====
